---- MODULE Spec2Model ----
(***************************************************************************)
(* Model of the sbxbin-runner supervisor (src/src/main.rs): main() spawns  *)
(* one child, polls it with wait_timeout(poll_interval), enforces the run  *)
(* timeout and the SIGINT/SIGTERM latch, and ends the child with           *)
(* graceful_shutdown (SIGTERM, grace wait, SIGKILL, wait).                 *)
(*                                                                         *)
(* The supervisor is one sequential process (pc); the child process and    *)
(* the delivery of signals to the supervisor run concurrently with it.     *)
(***************************************************************************)
EXTENDS Integers, Sequences, FiniteSets, TLC

(***************************************************************************)
(* Bounds of the model.                                                    *)
(***************************************************************************)
\* largest config.run_timeout_sec explored
MaxRunTimeoutSec == 2
\* largest number of wait_timeout() calls of the monitoring loop explored
MaxPolls == 6

\* values of config.poll_interval_ms explored (positive, as the launch
\* specification requires); 400 does not divide 1000, 1500 exceeds 1000
PollIntervals == {400, 500, 1500}
\* values of config.grace_period_sec explored
GracePeriods == {0, 1}
\* values of config.streams.stdout and config.streams.stderr explored:
\* unset, the null device named explicitly, a file
StreamTargets == {<< >>, << "/dev/null" >>, << "out.log" >>}
\* exit codes the child may exit with
ExitCodes == {0, 7}
\* signals, other than those of the supervisor, the child may die from
OwnSignals == {11}

(***************************************************************************)
(* Program constants.                                                      *)
(***************************************************************************)
SIGINT == 2
SIGKILL == 9
SIGTERM == 15

\* Option<T>: None is the empty tuple, Some(v) the one-element tuple
None == << >>
Some(v) == << v >>

\* subprocess::ExitStatus as matched by get_exit_code
Exited(c) == [kind |-> "Exited", code |-> c]
Signaled(n) == [kind |-> "Signaled", code |-> n]
OtherStatus == [kind |-> "Other", code |-> 0]
NoStatus == [kind |-> "NoStatus", code |-> 0]

\* enum ExitReason
ExitReason == {"Finished", "Timeout", "Terminated", "InternalError"}

VARIABLES
    build,            \* "debug" (overflow checks on) or "release" (wrapping)
    config,           \* Config: poll_interval_ms, run_timeout_sec
    pc,               \* position of main()
    registered,       \* signals whose handler sets the latch
    term,             \* the latch: Arc<AtomicBool> term
    run_timeout,      \* main's u64 run_timeout; a negative r stands for
                      \* the wrapped value 2^64 + r
    child,            \* the child process: state, status, what ended it
                      \* (by) and where main() was when it ended (at)
    sent,             \* signals the supervisor sent to the child, in order
    exit_reason,      \* main's exit_reason
    child_exit_code,  \* main's child_exit_code: Option<u32>
    stdout,           \* lines printed on standard output
    exit_status,      \* Option: the exit status the parent observes
    polls,            \* number of wait_timeout() calls of the loop so far
    iter,             \* what the last loop iteration observed
    cause,            \* what invoked graceful_shutdown: none/timeout/signal
    grace,            \* result of graceful_shutdown's wait_timeout
    oserr,            \* an OS call (wait, signal send) has failed
    sig_early,        \* a signal reached the supervisor while the child
                      \* ran and the poll in progress left budget over
    popen,            \* the PopenConfig streams and the files opened for them
    waited            \* seconds graceful_shutdown's wait_timeout has blocked

vars == << build, config, pc, registered, term, run_timeout, child, sent,
           exit_reason, child_exit_code, stdout, exit_status, polls, iter,
           cause, grace, oserr, sig_early, popen, waited >>

NoIter == [exited |-> FALSE, budget |-> 0, latch |-> FALSE, err |-> FALSE,
           status |-> NoStatus]

\* exit with 256 as the InternalError sentinel, which the parent sees as 0
exit_wide(reason) ==
    CASE reason = "Finished" -> 0
      [] reason = "Timeout" -> 138
      [] reason = "Terminated" -> 130
      [] reason = "InternalError" -> 256

\* fn exit(reason): the argument of std::process::exit
exit(reason) ==
    CASE reason = "Finished" -> 0
      [] reason = "Timeout" -> 138
      [] reason = "Terminated" -> 130
      [] reason = "InternalError" -> -1

\* std::process::exit: the parent observes the low 8 bits of the code
ProcessExit(code) == code % 256

\* get_exit_code taking every other status form as exit code 0
get_exit_code_lenient(st) ==
    CASE st.kind = "Exited" -> Some(st.code)
      [] st.kind = "Signaled" -> Some(st.code + 128)
      [] OTHER -> Some(0)

\* get_exit_code without the 128 offset of a signal death
get_exit_code_raw(st) ==
    CASE st.kind = "Exited" -> Some(st.code)
      [] st.kind = "Signaled" -> Some(st.code)
      [] OTHER -> None

\* fn get_exit_code(exit_status) -> Option<u32>
get_exit_code(st) ==
    CASE st.kind = "Exited" -> Some(st.code)
      [] st.kind = "Signaled" -> Some(st.code + 128)
      [] OTHER -> None

\* println!("{}", code): the decimal digits of code, most significant first
RECURSIVE Decimal(_)
Decimal(n) == IF n < 10 THEN << n >> ELSE Append(Decimal(n \div 10), n % 10)

\* the report printing a line also when the child exit code is absent
ReportAlwaysPrints(reason, code) ==
    /\ pc' = "done"
    /\ exit_reason' = reason
    /\ child_exit_code' = code
    /\ stdout' = Append(stdout, IF code # None THEN Decimal(code[1]) ELSE << 0 >>)
    /\ exit_status' = Some(ProcessExit(exit(reason)))

\* main's lines after the loop: print the child exit code if present, exit
Report(reason, code) ==
    /\ pc' = "done"
    /\ exit_reason' = reason
    /\ child_exit_code' = code
    /\ stdout' = IF code # None THEN Append(stdout, Decimal(code[1])) ELSE stdout
    /\ exit_status' = Some(ProcessExit(exit(reason)))

\* config.streams with no redirection target set
DefaultStreams == [stdin |-> None, stdout |-> None, stderr |-> None]

\* subprocess::Redirection as built by redirection.rs
File(path) == [kind |-> "File", path |-> path]
Merge == [kind |-> "Merge", path |-> ""]
NoRedirection == [kind |-> "None", path |-> ""]

\* no PopenConfig built yet, no file opened
NoPopen == [stdin |-> NoRedirection, stdout |-> NoRedirection,
            stderr |-> NoRedirection, opened |-> << >>]

\* fn stream_redirection(stream, file): the path opened, /dev/null when unset
stream_redirection(stream) ==
    File(IF stream = None THEN "/dev/null" ELSE stream[1])

\* fn stdin_redirection(config)
stdin_redirection(cfg) == stream_redirection(cfg.streams.stdin)

\* fn stdout_redirection(config)
stdout_redirection(cfg) == stream_redirection(cfg.streams.stdout)

\* stderr_redirection comparing the paths opened rather than the targets
stderr_redirection_resolved(cfg) ==
    IF stream_redirection(cfg.streams.stdout)
          # stream_redirection(cfg.streams.stderr)
    THEN stream_redirection(cfg.streams.stderr)
    ELSE Merge

\* fn stderr_redirection(config)
stderr_redirection(cfg) ==
    IF cfg.streams.stdout # cfg.streams.stderr
    THEN stream_redirection(cfg.streams.stderr)
    ELSE Merge

\* fn create_popen_config(config): the three redirections, and the files
\* opened for them, in order, with the mode of file_read / file_write
create_popen_config(cfg) ==
    LET in == stdin_redirection(cfg)
        out == stdout_redirection(cfg)
        err == stderr_redirection(cfg)
    IN [stdin |-> in, stdout |-> out, stderr |-> err,
        opened |-> << [path |-> in.path, mode |-> "read"],
                      [path |-> out.path, mode |-> "write"] >>
                   \o (IF err.kind = "File"
                       THEN << [path |-> err.path, mode |-> "write"] >>
                       ELSE << >>)]

\* every combination of redirection targets explored
AllStreams == [stdin : {<< >>, << "in.txt" >>}, stdout : StreamTargets,
               stderr : StreamTargets]

\* the state when main() starts, the configuration loaded, its streams
\* drawn from the set given
InitWith(streams) ==
    /\ build \in {"debug", "release"}
    /\ config \in [poll_interval_ms : PollIntervals,
                   run_timeout_sec : 0..MaxRunTimeoutSec,
                   grace_period_sec : GracePeriods,
                   streams : streams]
    /\ pc = "register"
    /\ registered = {}
    /\ term = FALSE
    /\ run_timeout = 0
    /\ child = [state |-> "none", status |-> NoStatus, by |-> "none", at |-> "none"]
    /\ sent = << >>
    /\ exit_reason = "Finished"
    /\ child_exit_code = None
    /\ stdout = << >>
    /\ exit_status = None
    /\ polls = 0
    /\ iter = NoIter
    /\ cause = "none"
    /\ grace = "pending"
    /\ oserr = FALSE
    /\ sig_early = FALSE
    /\ popen = NoPopen
    /\ waited = 0

\* runs of a configuration without redirection targets
Init == InitWith({DefaultStreams})

\* runs of every combination of redirection targets
RedirInit == InitWith(AllStreams)

\* main going on to the spawn after a failed registration
RegisterSignalsIgnoresErr(ok) ==
    /\ pc = "register"
    /\ IF ok THEN registered' = {SIGINT, SIGTERM}
             ELSE registered' \in {{}, {SIGINT}}
    /\ oserr' = (oserr \/ ~ok)
    /\ pc' = "spawn"
    /\ run_timeout' = config.run_timeout_sec * 1000
    /\ UNCHANGED << build, config, term, child, sent, exit_reason,
                    child_exit_code, stdout, polls, iter, cause, grace,
                    sig_early, exit_status, popen, waited >>

\* main: register(signal, term) for SIGINT and SIGTERM; a failure, of the
\* first or of the second registration, exits.
\* Then `run_timeout = config.run_timeout_sec * 1000`, which stays far below
\* 2^64 for the timeouts explored
RegisterSignals(ok) ==
    /\ pc = "register"
    /\ IF ok
       THEN /\ registered' = {SIGINT, SIGTERM}
            /\ pc' = "spawn"
            /\ run_timeout' = config.run_timeout_sec * 1000
            /\ UNCHANGED << exit_status, oserr >>
       ELSE /\ pc' = "done"
            /\ exit_status' = Some(ProcessExit(exit("InternalError")))
            /\ oserr' = TRUE
            /\ registered' \in {{}, {SIGINT}}
            /\ UNCHANGED run_timeout
    /\ UNCHANGED << build, config, term, child, sent, exit_reason,
                    child_exit_code, stdout, polls, iter, cause, grace,
                    sig_early >>
    /\ UNCHANGED << popen, waited >>

\* main: create_popen_config and Popen::create; a failure exits: the open
\* of one of the files failed (those before it are open), or the spawn did
Spawn(ok) ==
    /\ pc = "spawn"
    /\ LET pconf == create_popen_config(config)
       IN IF ok
          THEN /\ popen' = pconf
               /\ child' = [state |-> "running", status |-> NoStatus,
                            by |-> "none", at |-> "none"]
               /\ pc' = "wait"
               /\ UNCHANGED << exit_status, oserr >>
          ELSE /\ \E k \in 0..Len(pconf.opened) :
                    popen' = IF k = Len(pconf.opened) THEN pconf
                             ELSE [NoPopen EXCEPT
                                     !.opened = SubSeq(pconf.opened, 1, k)]
               /\ pc' = "done"
               /\ exit_status' = Some(ProcessExit(exit("InternalError")))
               /\ oserr' = TRUE
               /\ UNCHANGED child
    /\ UNCHANGED waited
    /\ UNCHANGED << build, config, registered, term, run_timeout, sent,
                    exit_reason, child_exit_code, stdout, polls, iter, cause,
                    grace, sig_early >>

\* the supervisor process is running its code
SupervisorAlive == pc \notin {"done", "panicked"}

\* exit status of a Rust process whose main thread panicked
PanicStatus == 101

\* `run_timeout -= poll_interval` on u64: the subtraction underflows when the
\* stored value is below b; a negative representative stands for a value
\* near 2^64, which no poll interval of the model exceeds
Underflows(a, b) == a >= 0 /\ a < b

\* `run_timeout <= 0` on u64: true of the value zero only
BudgetExhausted(rt) == rt = 0

\* the checks of one iteration with the run timeout tested before the exit
DecideTimeoutFirst(exited, rt, latch) ==
    IF BudgetExhausted(rt) THEN "timeout"
    ELSE IF exited THEN "exit"
    ELSE IF latch THEN "signal"
    ELSE "continue"

\* the order of the checks of one loop iteration whose wait did not fail:
\* child exit, then run timeout, then the signal latch
Decide(exited, rt, latch) ==
    IF exited THEN "exit"
    ELSE IF BudgetExhausted(rt) THEN "timeout"
    ELSE IF latch THEN "signal"
    ELSE "continue"

\* one iteration of main's loop: ps.wait_timeout(dur_timeout), then the
\* checks; werr: wait_timeout returned Err
LoopIter(werr) ==
    /\ pc = "wait"
    /\ polls < MaxPolls
    /\ polls' = polls + 1
    /\ LET exited == ~werr /\ child.state = "exited"
           left == run_timeout - config.poll_interval_ms
           seen == [exited |-> exited, budget |-> left, latch |-> term,
                    err |-> werr,
                    status |-> IF exited THEN child.status ELSE NoStatus]
           code == get_exit_code(seen.status)
           what == Decide(exited, left, term)
       IN
       /\ iter' = seen
       /\ IF werr
          THEN /\ Report("InternalError", child_exit_code)
               /\ oserr' = TRUE
               /\ UNCHANGED << run_timeout, cause >>
          ELSE IF what = "exit"
          THEN /\ IF code = None
                  THEN Report("InternalError", child_exit_code)
                  ELSE Report(exit_reason, code)
               /\ UNCHANGED << run_timeout, cause, oserr >>
          ELSE IF build = "debug" /\ Underflows(run_timeout, config.poll_interval_ms)
          THEN /\ pc' = "panicked"
               /\ exit_status' = Some(PanicStatus)
               /\ UNCHANGED << run_timeout, cause, oserr, exit_reason,
                               child_exit_code, stdout >>
          ELSE /\ run_timeout' = left
               /\ pc' = IF what = "continue" THEN "wait" ELSE "sd_term"
               /\ cause' = IF what = "continue" THEN cause ELSE what
               /\ UNCHANGED << oserr, exit_reason, child_exit_code, stdout,
                               exit_status >>
    /\ UNCHANGED << build, config, registered, term, child, sent, grace,
                    sig_early >>
    /\ UNCHANGED << popen, waited >>

\* graceful_shutdown starting at the grace-period wait, without ps.terminate()
SendTermSkipped(ok) ==
    /\ pc = "sd_term"
    /\ pc' = "sd_wait"
    /\ UNCHANGED << build, config, registered, term, run_timeout, child,
                    polls, iter, cause, grace, sig_early, exit_reason,
                    child_exit_code, stdout, exit_status, popen, waited,
                    sent, oserr >>

\* graceful_shutdown going on to the grace-period wait after a failed send
SendTermIgnoresErr(ok) ==
    /\ pc = "sd_term"
    /\ sent' = IF ok THEN Append(sent, SIGTERM) ELSE sent
    /\ oserr' = (oserr \/ ~ok)
    /\ pc' = "sd_wait"
    /\ UNCHANGED << build, config, registered, term, run_timeout, child,
                    polls, iter, cause, grace, sig_early, exit_reason,
                    child_exit_code, stdout, exit_status, popen, waited >>

\* graceful_shutdown: ps.terminate(); ok = FALSE: the send failed
SendTerm(ok) ==
    /\ pc = "sd_term"
    /\ IF ok
       THEN /\ sent' = Append(sent, SIGTERM)
            /\ pc' = "sd_wait"
            /\ UNCHANGED << oserr, exit_reason, child_exit_code, stdout,
                            exit_status >>
       ELSE /\ Report("InternalError", child_exit_code)
            /\ oserr' = TRUE
            /\ UNCHANGED sent
    /\ UNCHANGED << build, config, registered, term, run_timeout, child,
                    polls, iter, cause, grace, sig_early >>
    /\ UNCHANGED << popen, waited >>

\* ps.kill() sent whatever the grace-period wait returned
KillAlways(result) == TRUE

\* ps.kill() never sent
KillNever(result) == FALSE

\* graceful_shutdown: `if let None = result`, the guard of ps.kill()
KillNeeded(result) == result = "None"

\* the grace-period wait cut short by a signal reaching the supervisor
GraceOverOrSignal(w, latch) == w >= config.grace_period_sec \/ latch

\* wait_timeout(dur_shutdown) gives up once grace_period_sec seconds have
\* passed; the latch plays no part in it
GraceOver(w, latch) == w >= config.grace_period_sec

\* a second passes while graceful_shutdown's wait_timeout blocks
Tick ==
    /\ pc = "sd_wait"
    /\ child.state = "running"
    /\ ~GraceOver(waited, term)
    /\ waited' = waited + 1
    /\ UNCHANGED << build, config, pc, registered, term, run_timeout, child,
                    sent, exit_reason, child_exit_code, stdout, exit_status,
                    polls, iter, cause, grace, oserr, sig_early, popen >>

\* graceful_shutdown: ps.wait_timeout(timeout); it returns Some when the
\* child has exited and None when the grace period passed with it running
GraceWait(werr) ==
    /\ pc = "sd_wait"
    /\ IF werr
       THEN /\ Report("InternalError", child_exit_code)
            /\ oserr' = TRUE
            /\ UNCHANGED grace
       ELSE /\ child.state = "exited" \/ GraceOver(waited, term)
            /\ grace' = IF child.state = "exited" THEN "Some" ELSE "None"
            /\ pc' = IF KillNeeded(grace') THEN "sd_kill" ELSE "sd_final"
            /\ UNCHANGED << oserr, exit_reason, child_exit_code, stdout,
                            exit_status >>
    /\ UNCHANGED << build, config, registered, term, run_timeout, child, sent,
                    polls, iter, cause, sig_early >>
    /\ UNCHANGED << popen, waited >>

\* graceful_shutdown: ps.kill(); ok = FALSE: the send failed
SendKill(ok) ==
    /\ pc = "sd_kill"
    /\ IF ok
       THEN /\ sent' = Append(sent, SIGKILL)
            /\ pc' = "sd_final"
            /\ UNCHANGED << oserr, exit_reason, child_exit_code, stdout,
                            exit_status >>
       ELSE /\ Report("InternalError", child_exit_code)
            /\ oserr' = TRUE
            /\ UNCHANGED sent
    /\ UNCHANGED << build, config, registered, term, run_timeout, child,
                    polls, iter, cause, grace, sig_early >>
    /\ UNCHANGED << popen, waited >>

\* ps.wait() returns once the child has terminated
WaitReturns == child.state = "exited"

\* both shutdown branches of main setting ExitReason::Timeout
ShutdownReasonSame(c) == "Timeout"

\* main: the exit reason set after graceful_shutdown returned Ok
ShutdownReason(c) == IF c = "timeout" THEN "Timeout" ELSE "Terminated"

\* main leaving exit_reason as it was after graceful_shutdown returned Ok
FinalWaitKeepsReason(werr) ==
    /\ pc = "sd_final"
    /\ IF werr
       THEN /\ Report("InternalError", child_exit_code)
            /\ oserr' = TRUE
       ELSE /\ WaitReturns
            /\ LET code == get_exit_code(child.status)
               IN IF code = None
                  THEN Report("InternalError", child_exit_code)
                  ELSE Report(exit_reason, code)
            /\ UNCHANGED oserr
    /\ UNCHANGED << build, config, registered, term, run_timeout, child, sent,
                    polls, iter, cause, grace, sig_early, popen, waited >>

\* the final wait polling instead of blocking: a child still running is
\* taken as exited with code 0
FinalWaitNoBlock(werr) ==
    /\ pc = "sd_final"
    /\ IF werr
       THEN /\ Report("InternalError", child_exit_code)
            /\ oserr' = TRUE
       ELSE /\ LET st == IF child.state = "exited" THEN child.status
                         ELSE Exited(0)
                   code == get_exit_code(st)
               IN IF code = None
                  THEN Report("InternalError", child_exit_code)
                  ELSE Report(ShutdownReason(cause), code)
            /\ UNCHANGED oserr
    /\ UNCHANGED << build, config, registered, term, run_timeout, child, sent,
                    polls, iter, cause, grace, sig_early >>
    /\ UNCHANGED << popen, waited >>

\* graceful_shutdown: ps.wait() and get_exit_code, then main's assignment
\* of child_exit_code and exit_reason and its report
FinalWait(werr) ==
    /\ pc = "sd_final"
    /\ IF werr
       THEN /\ Report("InternalError", child_exit_code)
            /\ oserr' = TRUE
       ELSE /\ WaitReturns
            /\ LET code == get_exit_code(child.status)
               IN IF code = None
                  THEN Report("InternalError", child_exit_code)
                  ELSE Report(ShutdownReason(cause), code)
            /\ UNCHANGED oserr
    /\ UNCHANGED << build, config, registered, term, run_timeout, child, sent,
                    polls, iter, cause, grace, sig_early >>
    /\ UNCHANGED << popen, waited >>

\* the set of signals in a sequence of sent signals
Signals(s) == { s[i] : i \in 1..Len(s) }

\* statuses the child may end with on its own
OwnStatuses ==
    { Exited(c) : c \in ExitCodes } \cup { Signaled(n) : n \in OwnSignals }
        \cup { OtherStatus }

\* the child terminates by itself (exit, fault, or a handled signal)
ChildExit(st) ==
    /\ SupervisorAlive
    /\ child.state = "running"
    /\ child' = [state |-> "exited", status |-> st, by |-> "self", at |-> pc]
    /\ UNCHANGED << build, config, pc, registered, term, run_timeout, sent,
                    exit_reason, child_exit_code, stdout, exit_status, polls,
                    iter, cause, grace, oserr, sig_early >>
    /\ UNCHANGED << popen, waited >>

\* the child dies from a signal sig the supervisor sent to it
ChildKilled(sig) ==
    /\ SupervisorAlive
    /\ child.state = "running"
    /\ sig \in Signals(sent)
    /\ child' = [state |-> "exited", status |-> Signaled(sig),
                 by |-> IF sig = SIGKILL THEN "SIGKILL" ELSE "SIGTERM",
                 at |-> pc]
    /\ UNCHANGED << build, config, pc, registered, term, run_timeout, sent,
                    exit_reason, child_exit_code, stdout, exit_status, polls,
                    iter, cause, grace, oserr, sig_early >>
    /\ UNCHANGED << popen, waited >>

\* SIGINT or SIGTERM is delivered to the supervisor: the handler registered
\* by signal_hook::flag::register stores true in the latch
Signal(sig) ==
    /\ SupervisorAlive
    /\ sig \in registered
    /\ term' = TRUE
    /\ sig_early' = (sig_early \/ (/\ pc = "wait"
                                   /\ child.state = "running"
                                   /\ run_timeout - config.poll_interval_ms > 0))
    /\ UNCHANGED << build, config, pc, registered, run_timeout, child, sent,
                    exit_reason, child_exit_code, stdout, exit_status, polls,
                    iter, cause, grace, oserr >>
    /\ UNCHANGED << popen, waited >>

Next ==
    \/ \E ok \in BOOLEAN : RegisterSignals(ok)
    \/ \E ok \in BOOLEAN : Spawn(ok)
    \/ \E werr \in BOOLEAN : LoopIter(werr)
    \/ \E ok \in BOOLEAN : SendTerm(ok)
    \/ Tick
    \/ \E werr \in BOOLEAN : GraceWait(werr)
    \/ \E ok \in BOOLEAN : SendKill(ok)
    \/ \E werr \in BOOLEAN : FinalWait(werr)
    \/ \E st \in OwnStatuses : ChildExit(st)
    \/ \E sig \in {SIGTERM, SIGKILL} : ChildKilled(sig)
    \/ \E sig \in {SIGINT, SIGTERM} : Signal(sig)

Spec == Init /\ [][Next]_vars

\* the same supervisor, over every combination of redirection targets
RedirSpec == RedirInit /\ [][Next]_vars

\* the supervisor keeps running while it can, without a failing OS call,
\* and SIGKILL, which cannot be caught, ends the child
FairSpec ==
    /\ Spec
    /\ WF_vars(RegisterSignals(TRUE))
    /\ WF_vars(Spawn(TRUE))
    /\ WF_vars(LoopIter(FALSE))
    /\ WF_vars(SendTerm(TRUE))
    /\ WF_vars(Tick)
    /\ WF_vars(GraceWait(FALSE))
    /\ WF_vars(SendKill(TRUE))
    /\ WF_vars(FinalWait(FALSE))
    /\ WF_vars(ChildKilled(SIGKILL))

(***************************************************************************)
(* Properties.                                                             *)
(***************************************************************************)
\* main() has ended: it exited through exit(), or it panicked
Ended == pc \in {"done", "panicked"}

\* the status the child ended with is one get_exit_code decodes
Decodable(st) == st.kind \in {"Exited", "Signaled"}

\* the exit code of a status, written out: c for exit(c), 128 + n for signal n
RealCode(st) == IF st.kind = "Exited" THEN st.code ELSE 128 + st.code

\* the value of a line of decimal digits
RECURSIVE DecimalValue(_)
DecimalValue(line) ==
    IF line = << >> THEN 0
    ELSE 10 * DecimalValue(SubSeq(line, 1, Len(line) - 1)) + line[Len(line)]

\* the last loop iteration's wait reported the child still running
IterNoExit == polls >= 1 /\ ~iter.err /\ ~iter.exited

\* C1: when the child never exits on its own, the latch is never set and no
\* OS call fails, the run ends TimedOut with a child exit code, the child
\* terminated and exit status 138; the loop never waits again after an
\* iteration that exhausted the budget.
C1_TimeoutFires ==
    /\ (Ended /\ child.state # "none" /\ child.by # "self" /\ ~term /\ ~oserr)
          => /\ pc = "done"
             /\ exit_reason = "Timeout"
             /\ child_exit_code # None
             /\ child.state = "exited"
             /\ exit_status = Some(138)
    /\ (pc = "wait" /\ IterNoExit /\ ~term) => iter.budget > 0

\* C2 as stated: a signal that reaches the supervisor while the child runs
\* and before the budget is exhausted gives SignaledToStop, a child exit
\* code and exit status 130 (no OS call failing).
C2_SignalAlwaysWins ==
    (Ended /\ sig_early /\ ~oserr /\ Decodable(child.status))
        => /\ exit_reason = "Terminated"
           /\ child_exit_code # None
           /\ exit_status = Some(130)

\* C2 amended: an iteration whose wait reports the child running, whose
\* budget stays positive after the decrement and which reads the latch set
\* invokes the shutdown for the signal; a shutdown that returns a code ends
\* SignaledToStop with exit status 130, any other ends InternalError.
C2_LatchSeenStops ==
    (IterNoExit /\ iter.budget > 0 /\ iter.latch)
        => /\ cause = "signal"
           /\ pc \in {"sd_term", "sd_wait", "sd_kill", "sd_final", "done"}
           /\ (pc = "done" /\ child_exit_code # None)
                 => /\ exit_reason = "Terminated"
                    /\ exit_status = Some(130)
                    /\ child_exit_code = Some(RealCode(child.status))
           /\ (pc = "done" /\ child_exit_code = None)
                 => exit_reason = "InternalError"

C2_Witness ==
    /\ pc = "done"
    /\ sig_early
    /\ iter.latch /\ iter.budget > 0
    /\ exit_reason = "Terminated"
    /\ child_exit_code = Some(128 + SIGTERM)

\* C3: a child that exits by itself, with an exit code or from a signal,
\* while the loop is polling, no signal arriving and no OS call failing, is
\* reported Finished with its real code (128 + N for signal N); nothing is
\* sent to it, no shutdown is invoked, and the exit status is 0.
C3_ExitIsFinished ==
    (/\ Ended
     /\ child.state = "exited" /\ child.at = "wait"
     /\ Decodable(child.status)
     /\ ~term /\ ~oserr)
        => /\ pc = "done"
           /\ exit_reason = "Finished"
           /\ child_exit_code = Some(RealCode(child.status))
           /\ sent = << >>
           /\ cause = "none"
           /\ exit_status = Some(0)

C3_Witness ==
    /\ pc = "done"
    /\ child.at = "wait" /\ child.status = Signaled(11)
    /\ ~term /\ ~oserr
    /\ polls > 1
    /\ child_exit_code = Some(139)
    /\ exit_status = Some(0)

C5_ZeroTimeoutFires ==
    (config.run_timeout_sec = 0 /\ IterNoExit)
        => /\ polls = 1
           /\ cause = "timeout"
           /\ pc \in {"sd_term", "sd_wait", "sd_kill", "sd_final", "done"}
           /\ (pc = "done" /\ child_exit_code # None) => exit_reason = "Timeout"

\* C6: an iteration whose wait reports the child exited never ends TimedOut
\* or SignaledToStop, sends no signal and invokes no shutdown, whatever the
\* budget and the latch; a status that decodes is reported Finished with
\* exit status 0.
C6_ExitHasPriority ==
    iter.exited
        => /\ pc = "done"
           /\ exit_reason \notin {"Timeout", "Terminated"}
           /\ sent = << >>
           /\ cause = "none"
           /\ Decodable(iter.status)
                 => /\ exit_reason = "Finished"
                    /\ child_exit_code = Some(RealCode(iter.status))
                    /\ exit_status = Some(0)

C6_Witness ==
    /\ iter.exited
    /\ iter.budget <= 0
    /\ iter.latch
    /\ exit_reason = "Finished"
    /\ child_exit_code = Some(7)

\* C7: an iteration whose wait reports the child running, with the budget
\* exhausted after the decrement and the latch set, invokes the shutdown
\* for the timeout, never for the signal: a run that returns a code ends
\* TimedOut with exit status 138.
C7_TimeoutBeforeSignal ==
    (IterNoExit /\ iter.budget <= 0 /\ iter.latch)
        => /\ cause = "timeout"
           /\ exit_reason # "Terminated"
           /\ (pc = "done" /\ child_exit_code # None)
                 => exit_reason = "Timeout" /\ exit_status = Some(138)

\* C8: a child found exited by the grace-period wait is never sent SIGKILL;
\* SIGKILL is sent only after the grace-period wait returned with the child
\* still running.
C8_NoKillAfterExit ==
    /\ grace = "Some" => SIGKILL \notin Signals(sent)
    /\ (pc = "sd_kill" \/ SIGKILL \in Signals(sent)) => grace = "None"

C8_Witness ==
    /\ pc = "done"
    /\ grace = "Some"
    /\ child.at = "sd_wait"
    /\ sent = << SIGTERM >>
    /\ exit_reason \in {"Timeout", "Terminated"}

\* C9: when the grace-period wait returns with the child still running the
\* next step sends SIGKILL (or fails as InternalError), the supervisor then
\* waits until the child has terminated (or the wait fails), and a shutdown
\* that returned a code never leaves the child alive.
C9_KillThenConfirm ==
    /\ [][(pc = "sd_wait" /\ grace' = "None") => pc' = "sd_kill"]_vars
    /\ [][(pc = "sd_kill" /\ pc' # "sd_kill")
            => \/ sent' = Append(sent, SIGKILL) /\ pc' = "sd_final"
               \/ pc' = "done" /\ exit_reason' = "InternalError" /\ oserr']_vars
    /\ [][(pc = "sd_final" /\ pc' = "done" /\ child_exit_code' # None)
            => child.state = "exited"]_vars
    /\ (grace = "None") ~> (SIGKILL \in Signals(sent) \/ oserr)
    /\ (SIGKILL \in Signals(sent))
          ~> (pc = "done" /\ (child.state = "exited" \/ oserr))

C9_Witness ==
    /\ pc = "done"
    /\ grace = "None"
    /\ sent = << SIGTERM, SIGKILL >>
    /\ child.by = "SIGKILL"
    /\ child_exit_code = Some(128 + SIGKILL)

InShutdown == pc \in {"sd_term", "sd_wait", "sd_kill", "sd_final"}

\* C11: a failure of a step of the shutdown escalation (a signal send, a
\* wait, the status decoding) ends the run in that same step, with
\* InternalError and no child exit code, without another signal sent or
\* another wait made; after a failed SIGTERM send there has been neither a
\* grace-period wait nor a SIGKILL.
C11_ShutdownFailureAborts ==
    /\ [][(InShutdown /\ ~oserr /\ oserr')
            => /\ pc' = "done"
               /\ exit_reason' = "InternalError"
               /\ child_exit_code' = None
               /\ exit_status' = Some(255)
               /\ sent' = sent /\ grace' = grace /\ waited' = waited]_vars
    /\ [][(pc = "sd_final" /\ pc' # pc /\ ~Decodable(child.status))
            => /\ pc' = "done"
               /\ exit_reason' = "InternalError"
               /\ child_exit_code' = None]_vars
    /\ [][pc = "done" => (pc' = "done" /\ sent' = sent /\ grace' = grace)]_vars
    /\ [](oserr => pc = "done")
    /\ []((pc = "done" /\ cause # "none" /\ oserr)
            => exit_reason \notin {"Timeout", "Terminated", "Finished"})

C11_Witness ==
    /\ pc = "done"
    /\ cause = "timeout"
    /\ oserr
    /\ sent = << >>
    /\ grace = "pending"
    /\ child.state = "running"
    /\ exit_reason = "InternalError"
    /\ child_exit_code = None

\* the exit status the parent is to observe for each exit reason
StatusOf(reason) ==
    CASE reason = "Finished" -> 0
      [] reason = "Timeout" -> 138
      [] reason = "Terminated" -> 130
      [] reason = "InternalError" -> 255

\* C12: a run that exits through the report has the exit status of its
\* exit reason alone (0, 138, 130, and 255 for InternalError), a run that
\* fails before the spawn has the InternalError status, the four statuses
\* are pairwise distinct, and status 0 is produced for Finished only,
\* whatever the child's own exit code.
C12_StatusFromReason ==
    /\ (pc = "done" /\ child.state # "none")
          => exit_status = Some(StatusOf(exit_reason))
    /\ (pc = "done" /\ child.state = "none") => exit_status = Some(255)
    /\ exit_status = Some(0)
          => /\ pc = "done"
             /\ exit_reason = "Finished"
             /\ iter.exited
             /\ child_exit_code # None
    /\ \A r1, r2 \in ExitReason :
          r1 # r2 => ProcessExit(exit(r1)) # ProcessExit(exit(r2))

C12_Witness ==
    /\ pc = "done"
    /\ exit_reason = "Timeout"
    /\ child_exit_code = Some(0)
    /\ exit_status = Some(138)

\* C13: the handlers of SIGINT and of SIGTERM are both registered before
\* the child is spawned: main() is past the registration, and a child
\* exists, only with both registered; a failed registration ends the run
\* with the InternalError status, no child spawned and no file opened.
C13_ArmedBeforeSpawn ==
    /\ (child.state # "none" \/ pc \notin {"register", "done"})
          => registered = {SIGINT, SIGTERM}
    /\ registered # {SIGINT, SIGTERM}
          => /\ child.state = "none"
             /\ popen = NoPopen
             /\ pc \in {"register", "done"}
             /\ pc = "done" => exit_status = Some(255) /\ stdout = << >>

C13_Witness ==
    /\ pc = "wait"
    /\ polls = 0
    /\ child.state = "running"
    /\ registered = {SIGINT, SIGTERM}
    /\ term

\* C14: the child exit code reported is determined by the status the child
\* ended with: c after a normal exit with code c, 128 + n after a death
\* from signal n; any other status form is a decode failure and the run
\* ends InternalError with no code and no line printed.
C14_Decoding ==
    (pc = "done" /\ child.state = "exited" /\ ~oserr)
        => CASE child.status.kind = "Exited"
                  -> /\ child_exit_code = Some(child.status.code)
                     /\ exit_reason # "InternalError"
             [] child.status.kind = "Signaled"
                  -> /\ child_exit_code = Some(128 + child.status.code)
                     /\ exit_reason # "InternalError"
             [] OTHER
                  -> /\ child_exit_code = None
                     /\ exit_reason = "InternalError"
                     /\ stdout = << >>

C14_Witness ==
    /\ pc = "done"
    /\ iter.exited
    /\ iter.status = OtherStatus
    /\ exit_reason = "InternalError"
    /\ ~oserr

\* the files opened for writing by create_popen_config
WriteOpens == { i \in 1..Len(popen.opened) : popen.opened[i].mode = "write" }

\* C15: once the PopenConfig is built, identical stdout and stderr targets
\* (the same path, or both unset) give one file opened for writing and
\* stderr merged into stdout; different targets (one of them unset
\* included) give a second file opened for writing, at the stderr target,
\* or at the null device when stderr is unset.
C15_MergeRule ==
    popen.stdout.kind = "File"
        => IF config.streams.stdout = config.streams.stderr
           THEN /\ popen.stderr = Merge
                /\ Cardinality(WriteOpens) = 1
                /\ Len(popen.opened) = 2
           ELSE /\ popen.stderr.kind = "File"
                /\ popen.stderr.path =
                      (IF config.streams.stderr = << >> THEN "/dev/null"
                       ELSE config.streams.stderr[1])
                /\ Cardinality(WriteOpens) = 2
                /\ popen.opened[3].path = popen.stderr.path

C15_Witness ==
    /\ child.state = "running"
    /\ config.streams.stdout = << >>
    /\ config.streams.stderr = << "/dev/null" >>
    /\ popen.stderr = File("/dev/null")
    /\ popen.stdout = File("/dev/null")
    /\ Len(popen.opened) = 3

\* run_timeout_sec * 1000 - k * poll_interval_ms after the k polls made
BudgetLeft == config.run_timeout_sec * 1000 - polls * config.poll_interval_ms

\* max(1, ceil(run_timeout_sec * 1000 / poll_interval_ms))
PollsToTimeout ==
    LET c == (config.run_timeout_sec * 1000 + config.poll_interval_ms - 1)
                \div config.poll_interval_ms
    IN IF c < 1 THEN 1 ELSE c

\* C16: the budget arithmetic never aborts the supervisor and never wraps;
\* after a poll wait that reports no exit the timeout has fired exactly when
\* the budget left is <= 0, that is after PollsToTimeout poll waits.
C16_BudgetArithmetic ==
    /\ pc # "panicked"
    /\ run_timeout >= 0
    /\ IterNoExit
          => /\ (BudgetLeft <= 0) <=> (cause = "timeout")
             /\ cause = "timeout" => polls = PollsToTimeout
             /\ pc = "wait" => polls < PollsToTimeout

\* C17: a poll wait that completes with the latch set is the last one: the
\* supervisor has left the loop, through the shutdown escalation invoked for
\* the signal or for the timeout, or as Finished on a child exit; it is not
\* back at the wait with the latch set and unacted-on.
C17_LatchActedOn ==
    (polls >= 1 /\ ~iter.err /\ iter.latch)
        => /\ pc \in {"sd_term", "sd_wait", "sd_kill", "sd_final", "done"}
           /\ iter.exited \/ cause \in {"signal", "timeout"}
           /\ iter.exited => cause = "none"

\* C18: a shutdown escalation that returns a code ends the run with the
\* reason that invoked it, Timeout or Terminated and never Finished,
\* however the child ended, and the code reported is that of the child's
\* actual end: its own exit code (or 128 + n) when it ended by itself, also
\* between the last poll and the SIGTERM send or during the grace period,
\* 128 + SIGTERM when the cooperative signal killed it, 128 + SIGKILL = 137
\* when it was force-killed.
C18_ShutdownOutcome ==
    (pc = "done" /\ cause # "none" /\ child_exit_code # None)
        => /\ exit_reason = (IF cause = "timeout" THEN "Timeout" ELSE "Terminated")
           /\ child.state = "exited"
           /\ child.by = "self" => child_exit_code = Some(RealCode(child.status))
           /\ child.by = "SIGTERM" => child_exit_code = Some(143)
           /\ child.by = "SIGKILL"
                 => child_exit_code = Some(137) /\ stdout = << << 1, 3, 7 >> >>

C18_Witness ==
    /\ pc = "done"
    /\ cause = "timeout"
    /\ child.by = "self" /\ child.at = "sd_term"
    /\ exit_reason = "Timeout"
    /\ child_exit_code = Some(7)
    /\ sent = << SIGTERM >>

\* C19: the child is spawned once, at the spawn step, and stays the one
\* child of the run; the signals sent to it are none, SIGTERM, or SIGTERM
\* then SIGKILL; the shutdown escalation is entered at most once, from the
\* loop, and the loop is not resumed after it; a run that ends Finished has
\* sent nothing.
C19_OneChildOneEscalation ==
    /\ [](sent \in {<< >>, << SIGTERM >>, << SIGTERM, SIGKILL >>})
    /\ []((pc = "done" /\ exit_reason = "Finished") => sent = << >>)
    /\ []((pc \in {"wait", "panicked"} \/ InShutdown) => child.state # "none")
    /\ [][(child.state = "none" /\ child'.state # "none")
            => pc = "spawn" /\ pc' = "wait"]_vars
    /\ [][child.state # "none"
            => child'.state # "none" /\ pc' \notin {"register", "spawn"}]_vars
    /\ [][(pc' = "sd_term" /\ pc # "sd_term")
            => pc = "wait" /\ cause = "none" /\ sent = << >>]_vars
    /\ [][InShutdown => pc' # "wait"]_vars

C19_Witness ==
    /\ pc = "done"
    /\ cause = "signal"
    /\ exit_reason = "Terminated"
    /\ sent = << SIGTERM, SIGKILL >>
    /\ child.state = "exited"

\* a signal reached the supervisor after the loop last read the latch, that
\* is after the shutdown escalation was invoked
LateSignal == cause # "none" /\ term /\ ~iter.latch

\* C20: a signal that reaches the supervisor during the shutdown escalation
\* only sets the latch: the step, the signals sent, the grace time waited
\* and the budget stay as they are; no second SIGTERM is sent, SIGKILL is
\* sent only after the whole grace period was waited with the child
\* running, and a timeout-invoked shutdown that returns a code still ends
\* TimedOut with exit status 138.
C20_ShutdownIgnoresLatch ==
    /\ [][(InShutdown /\ term' # term)
            => UNCHANGED << pc, sent, grace, waited, cause, run_timeout,
                            exit_reason, child_exit_code, child >>]_vars
    /\ [](LateSignal
            => /\ cause = "timeout"
               /\ sent \in {<< >>, << SIGTERM >>, << SIGTERM, SIGKILL >>}
               /\ (pc = "sd_kill" \/ SIGKILL \in Signals(sent))
                     => grace = "None" /\ waited = config.grace_period_sec
               /\ (pc = "done" /\ child_exit_code # None)
                     => exit_reason = "Timeout" /\ exit_status = Some(138))

C20_Witness ==
    /\ pc = "done"
    /\ LateSignal
    /\ config.grace_period_sec = 1 /\ waited = 1
    /\ sent = << SIGTERM, SIGKILL >>
    /\ exit_reason = "Timeout"
    /\ exit_status = Some(138)
====
